---- MODULE Spec2Model ----
(***************************************************************************)
(* Model of the microbenchmark source generator of sse-labs/spear          *)
(* (util/profilegenerator): the Instruction descriptors, Util, the         *)
(* Generator and the command line driver main().                           *)
(*                                                                         *)
(* Text is modelled as a sequence of tokens.  A token is a piece of text   *)
(* that the program never looks into; the three pieces of text the program *)
(* does look for are tokens of their own: the newline "\n", the comma ","  *)
(* (Util.to_comma_separated joins with ", ", generate() splits on ",") and *)
(* the placeholder "COUNTER" (str.replace in the complex path).  A file    *)
(* is the sequence of the tokens written to it, f.write(s) appends the     *)
(* tokens of s, and an f-string is the concatenation of its pieces.        *)
(***************************************************************************)
EXTENDS Integers, Sequences, FiniteSets, TLC

(* ------------------------------ bounds --------------------------------- *)
MaxReps == 3       \* largest repetition count tried
MaxNeg == 1        \* main() is tried with repetition counts from -MaxNeg
MaxList == 2       \* longest instlist handed directly to a Generator

(* --------------------------- text helpers ------------------------------ *)
NL == "\n"
COUNTER == "COUNTER"
PyNone == "<PyNone>"                 \* Python's None object (not the text "None")

\* str(v) as an f-string renders it: None becomes the text "None"
Fmt(v) == IF v = PyNone THEN "None" ELSE v

\* range(a, b)
range(a, b) == [k \in 1..(IF b > a THEN b - a ELSE 0) |-> a + k - 1]

RECURSIVE Flat(_)
Flat(ss) == IF ss = <<>> THEN <<>> ELSE Head(ss) \o Flat(Tail(ss))

\* sep.join(arr)
RECURSIVE join(_, _)
join(sep, arr) ==
  IF arr = <<>> THEN <<>>
  ELSE IF Len(arr) = 1 THEN arr[1]
  ELSE arr[1] \o sep \o join(sep, Tail(arr))

\* s.split(c): the pieces of s between the occurrences of the token c
RECURSIVE split(_, _)
split(s, c) ==
  IF \A k \in 1..Len(s) : s[k] # c THEN <<s>>
  ELSE LET p == CHOOSE k \in 1..Len(s) : s[k] = c /\ \A j \in 1..(k-1) : s[j] # c
       IN  <<SubSeq(s, 1, p - 1)>> \o split(SubSeq(s, p + 1, Len(s)), c)

\* block.replace(old, new), new a single token
replace_first(block, old, new) ==
  IF \A k \in 1..Len(block) : block[k] # old THEN block
  ELSE LET p == CHOOSE k \in 1..Len(block) :
                   block[k] = old /\ \A j \in 1..(k-1) : block[j] # old
       IN  [k \in 1..Len(block) |-> IF k = p THEN new ELSE block[k]]
replace(block, old, new) ==
  [k \in 1..Len(block) |-> IF block[k] = old THEN new ELSE block[k]]

\* the lines of a text: the pieces between newlines, the last one dropped
\* when empty (the text ended with a newline)
Lines(text) ==
  LET ps == split(text, NL)
  IN  IF ps[Len(ps)] = <<>> THEN SubSeq(ps, 1, Len(ps) - 1) ELSE ps

(* ------------------------------- Util ---------------------------------- *)
to_comma_separated(arr) ==
  IF Len(arr) >= 2 THEN join(<<",", " ">>, arr)
  ELSE IF arr # <<>> THEN arr[1] ELSE <<>>

get_type_default(type) ==
  IF type = "i32" THEN "0"
  ELSE IF type = "i0" THEN "0"
  ELSE IF type = "i8" THEN "0"
  ELSE IF type = "float" THEN "0.0"
  ELSE PyNone

(* ---------------------------- Instruction ------------------------------ *)
\* Instruction.__init__; the cpx_* attributes are not set by it (they are
\* never read for a descriptor that is not complex) and are shown empty
Instruction(opcode, type, args, sideeffecttype) ==
  [opcode |-> opcode, type |-> type, args |-> args,
   sideeffecttype |-> sideeffecttype, is_complex |-> FALSE,
   cpx_exec_block |-> <<>>, cpx_header_block |-> <<>>,
   cpx_footer_block |-> <<>>, cpx_pretext |-> <<>>,
   cpx_use_counter |-> FALSE]

complex_instruction(opcode, executionblock, header, footer, pretext, preceed_with_counter) ==
  [Instruction(opcode, "", <<>>, PyNone) EXCEPT
     !.is_complex = TRUE,
     !.cpx_exec_block = executionblock,
     !.cpx_header_block = header,
     !.cpx_footer_block = footer,
     !.cpx_pretext = pretext,
     !.cpx_use_counter = preceed_with_counter]

get_opcode(inst) == inst.opcode
get_type(inst) == inst.type
get_args(inst) == to_comma_separated(inst.args)

(* ----------------------- Generator.generate ---------------------------- *)
Binding(i) == "%" \o ToString(i)            \* f"%{i}"
Define == <<"define i32 @main() #0 {", NL>>
Entry == <<"entry", ":", NL>>
Ret == <<"  ret i32 0", NL, "}", NL>>

\* filename = Path(self.baseloc) / f"{opcode}.ll"
Filename(base, opcode) == Append(base, opcode \o ".ll")

\* open(filename, "w") followed by the writes made before the file is
\* closed: the file is created or truncated and holds what was written
open_a(fs, filename, written) ==
  (filename :> ((IF filename \in DOMAIN fs THEN fs[filename] ELSE <<>>)
                \o written)) @@ fs
open_w(fs, filename, written) == (filename :> written) @@ fs

\* --- opcode == "br" ---
br_loop_short(R) == range(0, R)
br_loop(R) == range(0, R + 1)

br_jump_skip(i, R) ==
  IF i + 1 < R THEN <<"  br label %", "block" \o ToString(i + 2), NL, NL>>
  ELSE <<"  br label %", "end", NL, NL>>
br_jump(i, R) ==
  IF i < R THEN <<"  br label %", "block" \o ToString(i + 1), NL, NL>>
  ELSE <<"  br label %", "end", NL, NL>>

br_block(i, R) ==
  LET n == ToString(i)
  IN  <<"block" \o n, ":", NL>>
      \o <<"  ", "%v" \o n, " = and i32 42, 311", NL>>
      \o <<"  br i1 true, label %", "then" \o n, ", label %", "else" \o n,
           NL, NL>>
      \o <<"then" \o n, ":", NL>>
      \o <<"  store volatile i32 ", "%v" \o n, ", i32* @global", NL>>
      \o br_jump(i, R)
      \o <<"else" \o n, ":", NL>>
      \o <<"  store volatile i32 ", "%v" \o n, ", i32* @global", NL>>
      \o br_jump(i, R)

br_program(R) ==
  <<"@global = global i32 0", NL, NL>>
  \o Define \o Entry
  \o <<"  br label %", "block0", NL, NL>>
  \o Flat([k \in DOMAIN br_loop(R) |-> br_block(br_loop(R)[k], R)])
  \o <<"end", ":", NL>>
  \o Ret

\* --- opcode == "frem" ---
frem_loop(R) == range(0, R + 1)

frem_iteration_stale(ty, i) ==
  LET n == ToString(i)
  IN  <<"  ", "%x" \o n, " = load volatile ", ty, ", ", ty, "* ", "@c42", NL>>
      \o <<"  ", "%y" \o n, " = load volatile ", ty, ", ", ty, "* ", "@c3", NL>>
      \o <<"  ", "%r" \o n, " = frem ", ty, " ", "%x0", ", ", "%y0", NL>>
      \o <<"  call void asm sideeffect \"\", \"x\"(", ty, " ", "%r" \o n, ")",
           NL, NL>>
frem_iteration(ty, i) ==
  LET n == ToString(i)
  IN  <<"  ", "%x" \o n, " = load volatile ", ty, ", ", ty, "* ", "@c42", NL>>
      \o <<"  ", "%y" \o n, " = load volatile ", ty, ", ", ty, "* ", "@c3", NL>>
      \o <<"  ", "%r" \o n, " = frem ", ty, " ", "%x" \o n, ", ", "%y" \o n, NL>>
      \o <<"  call void asm sideeffect \"\", \"x\"(", ty, " ", "%r" \o n, ")",
           NL, NL>>

\* what the frem branch writes, and the exception it raises: the two
\* subscripts args.split(",")[0] and [1] are evaluated while the file is
\* already open, so an IndexError leaves the lines written before it
frem_program(ty, args, R) ==
  LET parts == split(args, ",")
      line62 == <<"@c42", " = global ", ty, " ">> \o parts[1] \o <<NL>>
  IN  IF Len(parts) < 2
      THEN [text |-> line62, raised |-> "IndexError"]
      ELSE [text |->
              line62
              \o <<"@c3", "  = global ", ty, " ">> \o parts[2] \o <<NL>>
              \o Define \o Entry
              \o Flat([k \in DOMAIN frem_loop(R) |->
                         frem_iteration(ty, frem_loop(R)[k])])
              \o <<"  store volatile ", ty, " ", "%r0", ", ", ty, "* ",
                   "@c42", NL>>
              \o Ret,
            raised |-> PyNone]

\* --- not inst.is_complex ---
simple_loop_short(R) == range(0, R)
simple_loop(R) == range(0, R + 1)

\* the type of the global and of the consumed value
sink(inst) ==
  IF inst.sideeffecttype # PyNone THEN inst.sideeffecttype ELSE inst.type

simple_store_last(inst, R) ==
  <<"  store volatile ", sink(inst), " ", Binding(R), ", ", sink(inst),
    "* @global", NL>>
simple_store(inst, R) ==
  <<"  store volatile ", sink(inst), " ", "%1", ", ", sink(inst),
    "* @global", NL>>

simple_iteration(inst, i) ==
  <<"  ", Binding(i), " = ", get_opcode(inst), " ", get_type(inst), " ">>
  \o get_args(inst) \o <<NL>>
  \o <<"  call void asm sideeffect \"\", \"r\"(", sink(inst), " ", Binding(i),
       ")", NL>>

simple_program(inst, R) ==
  LET tdefault == get_type_default(get_type(inst))
  IN  <<"@global = global ", sink(inst), " ", Fmt(tdefault), NL>>
      \o Define \o Entry
      \o Flat([k \in DOMAIN simple_loop(R) |->
                 simple_iteration(inst, simple_loop(R)[k])])
      \o simple_store(inst, R)
      \o Ret

\* --- inst.is_complex ---
complex_loop(R) == range(0, R + 1)

complex_iteration_first(inst, i) ==
  IF inst.cpx_use_counter
  THEN <<"  ", Binding(i), " = ">>
       \o replace_first(inst.cpx_exec_block, COUNTER, Binding(i)) \o <<NL>>
  ELSE <<"  ">> \o inst.cpx_exec_block \o <<NL>>
complex_iteration(inst, i) ==
  IF inst.cpx_use_counter
  THEN LET block == IF \E k \in DOMAIN inst.cpx_exec_block :
                          inst.cpx_exec_block[k] = COUNTER
                    THEN replace(inst.cpx_exec_block, COUNTER, Binding(i))
                    ELSE inst.cpx_exec_block
       IN  <<"  ", Binding(i), " = ">> \o block \o <<NL>>
  ELSE <<"  ">> \o inst.cpx_exec_block \o <<NL>>

complex_head(inst) ==
  inst.cpx_header_block \o <<NL, NL>> \o Define \o Entry \o inst.cpx_pretext
complex_tail_substituted(inst) ==
  <<"  ">> \o replace(inst.cpx_footer_block, COUNTER, Binding(0)) \o <<NL>>
  \o Ret
complex_tail(inst) ==
  <<"  ">> \o inst.cpx_footer_block \o <<NL>> \o Ret

complex_program(inst, R) ==
  complex_head(inst)
  \o Flat([k \in DOMAIN complex_loop(R) |->
             complex_iteration(inst, complex_loop(R)[k])])
  \o complex_tail(inst)

\* which of the four branches of generate() a descriptor takes
Strategy(inst) ==
  IF get_opcode(inst) = "br" THEN "br"
  ELSE IF get_opcode(inst) = "frem" THEN "frem"
  ELSE IF ~inst.is_complex THEN "simple"
  ELSE "complex"

(* ------------------- the worklists of the repository ------------------- *)
ops(a, b) == << <<a>>, <<b>> >>              \* a list of two operand literals

ConsumeI64 == <<NL, "  call void asm sideeffect \"\", \"r\"(i64 ", COUNTER, ")">>
StoreI64 == <<"store volatile i64 %1, i64* @global">>

\* main.py: worklist
worklist == <<
  complex_instruction("_noise", <<>>, <<>>, <<>>, <<>>, FALSE),
  Instruction("add", "i32", ops("42", "311"), PyNone),
  Instruction("fadd", "float", ops("42.0", "311.0"), PyNone),
  Instruction("fdiv", "float", ops("42.0", "311.0"), PyNone),
  complex_instruction("call",
    <<"call void @_Z3foov()", NL,
      "  call void asm sideeffect \"\", \"~{memory}\"()">>,
    <<"define void @_Z3foov() #0 {", NL, "  ret void", NL, "}">>,
    <<>>, <<>>, FALSE),
  complex_instruction("getelementptr",
    <<"getelementptr [4 x i8], [4 x i8]* @array, i32 0, i32 2", NL,
      "  call void asm sideeffect \"\", \"r\"(i8* ", COUNTER, ")">>,
    <<"@array = global [4 x i8] zeroinitializer", NL,
      "@ptr_sink = global i8* null">>,
    <<"store volatile i8* %1, i8** @ptr_sink">>, <<>>, TRUE),
  complex_instruction("load", <<"load volatile i8, i8* @global_src">>,
    <<"@global_src = global i8 17">>, <<>>, <<>>, TRUE),
  Instruction("mul", "i32", ops("42", "3"), PyNone),
  Instruction("fmul", "float", ops("42.0", "3.0"), PyNone),
  Instruction("or", "i32", ops("42", "311"), PyNone),
  Instruction("and", "i32", ops("42", "311"), PyNone),
  Instruction("xor", "i32", ops("42", "311"), PyNone),
  Instruction("br", "i32", <<>>, PyNone),
  Instruction("frem", "float", ops("42.0", "3.0"), PyNone),
  Instruction("urem", "i32", ops("42", "3"), PyNone),
  Instruction("sdiv", "i32", ops("42", "3"), PyNone),
  complex_instruction("select",
    <<"select i1 true, i64 17, i64 42">> \o ConsumeI64,
    <<"@global = global i64 0">>, StoreI64, <<>>, TRUE),
  complex_instruction("sext", <<"sext i32 257 to i64">> \o ConsumeI64,
    <<"@global = global i64 0">>, StoreI64, <<>>, TRUE),
  complex_instruction("zext", <<"zext i32 257 to i64">> \o ConsumeI64,
    <<"@global = global i64 0">>, StoreI64, <<>>, TRUE),
  Instruction("icmp ne", "i32", ops("252", "42"), "i1"),
  Instruction("icmp sge", "i32", ops("252", "42"), "i1"),
  Instruction("icmp sgt", "i32", ops("252", "42"), "i1"),
  Instruction("icmp sle", "i32", ops("252", "42"), "i1"),
  Instruction("icmp slt", "i32", ops("252", "42"), "i1"),
  Instruction("icmp uge", "i32", ops("252", "42"), "i1"),
  Instruction("icmp ule", "i32", ops("252", "42"), "i1"),
  Instruction("icmp ult", "i32", ops("252", "42"), "i1"),
  Instruction("shl", "i32", ops("42", "1"), PyNone),
  Instruction("lshr", "i32", ops("42", "1"), PyNone),
  Instruction("srem", "i32", ops("42", "3"), PyNone),
  complex_instruction("store", <<"store volatile i8 17, i8* @global_dst">>,
    <<"@global_dst = global i8 0">>, <<>>, <<>>, FALSE),
  Instruction("sub", "i32", ops("42", "311"), PyNone),
  Instruction("fsub", "float", ops("42.0", "311.0"), PyNone),
  Instruction("udiv", "i32", ops("42", "3"), PyNone) >>

\* WorklistItem.__init__
WorklistItem(instructions, subpath) ==
  [instructions |-> instructions, subpath |-> subpath]

\* definitions.py: cpu_worklist; its list of descriptors is, entry by
\* entry, the list written out again in main.py
cpu_worklist == WorklistItem(worklist, "cpu")

DramBuffer == "@buffer = global [134217728 x i8] zeroinitializer, align 64"
DramBase ==
  " %base_i8 = getelementptr inbounds [134217728 x i8], [134217728 x i8]* @buffer, i64 0, i64 0"

dram_worklist == WorklistItem(<<
  complex_instruction("load",
    <<"load i64, i64* %ptr, align 8">> \o ConsumeI64,
    <<DramBuffer>>, <<>>,
    <<DramBase, NL, "  %ptr = bitcast i8* %base_i8 to i64*">>, TRUE),
  complex_instruction("store", <<"store i64 %val, i64* %ptr, align 8">>,
    <<DramBuffer, NL, "  @store_value = constant i64 1311768467463790320">>,
    <<>>,
    <<DramBase, NL, " %ptr = bitcast i8* %base_i8 to i64*", NL,
      "  %val = load i64, i64* @store_value", NL>>, FALSE) >>, "dram")

worklists == <<cpu_worklist, dram_worklist>>

(* ------------------ descriptors handed to a Generator ------------------ *)
\* the descriptors a caller of Generator(instlist, baseloc, reps) is tried
\* with: descriptors of the repository's worklists and variations of them
Descriptors ==
  { worklist[2],                                           \* add i32
    Instruction("add", "float", << <<"1.0">> >>, PyNone),  \* a second "add"
    worklist[20],                                          \* icmp ne, sink i1
    Instruction("ptr_something", "ptr", ops("%p", "%q"), PyNone),
    worklist[13],                                          \* br
    complex_instruction("br", <<"x">>, <<"h">>, <<"f">>, <<"p">>, TRUE),
    worklist[14],                                          \* frem, 2 operands
    Instruction("frem", "float", <<>>, PyNone),
    Instruction("frem", "float", << <<"42.0">> >>, PyNone),
    Instruction("frem", "float",
                << <<"42.0">>, <<"3.0">>, <<"7.0">> >>, PyNone),
    worklist[7],                                           \* cpu load
    dram_worklist.instructions[1],                         \* dram load
    worklist[32],                                          \* cpu store
    dram_worklist.instructions[2],                         \* dram store
    complex_instruction("pair", <<"op ", COUNTER, ", ", COUNTER>>,
                        <<"@g = global i64 0">>, <<"f">>, <<>>, TRUE),
    complex_instruction("pair", <<"op ", COUNTER>>,
                        <<>>, <<>>, <<>>, FALSE),
    complex_instruction("frem", <<"x">>, <<"h">>, <<"f">>, <<"p">>, FALSE),
    complex_instruction("tpl", <<"op ", COUNTER>>, <<"@h = ", COUNTER>>,
                        <<"use ", COUNTER>>, <<"  pre ", COUNTER, NL>>,
                        TRUE) }

Instlists == UNION { [1..n -> Descriptors] : n \in 1..MaxList }

Root == <<"out">>                     \* the destination directory

(* ------------------------------ state ---------------------------------- *)
VARIABLES
  pc,           \* "main", "check": in main(); "generate": in the for loop
                \* of generate(); "raised": left by an exception; "done"
  repetitions,  \* args.repetitions, Generator.repetitions
  instlist,     \* Generator.instlist
  baseloc,      \* Generator.baseloc
  idx,          \* position of the for loop of generate() in instlist
  files,        \* the files on disk: path |-> text
  dirs,         \* the directories on disk
  stdout,       \* what was printed
  calls,        \* the Generator.generate() calls made: their baseloc
  io,           \* the file system operations made so far
  raised        \* the exception that ended the run, or PyNone

vars == <<pc, repetitions, instlist, baseloc, idx, files, dirs, stdout, calls,
          io, raised>>

NoFiles == << >>                      \* the empty directory
Stale == <<"stale", NL, "stale", NL>>  \* text of a file left by an earlier run

\* a Generator constructed on an instlist, generate() just called; the
\* destination exists and is empty or holds files of an earlier run
Init ==
  /\ pc = "generate"
  /\ repetitions \in 1..MaxReps
  /\ instlist \in Instlists
  /\ baseloc = Root
  /\ idx = 1
  /\ \E old \in BOOLEAN :
       files = IF old
               THEN [f \in {Filename(Root, get_opcode(instlist[k])) :
                              k \in DOMAIN instlist} |-> Stale]
               ELSE NoFiles
  /\ dirs = {Root}
  /\ stdout = <<>>
  /\ calls = <<Root>>
  /\ io = <<>>
  /\ raised = PyNone

\* main() entered with parsed arguments
MainInit ==
  /\ pc = "main"
  /\ repetitions \in (-MaxNeg)..MaxReps
  /\ instlist = <<>>
  /\ baseloc = <<>>
  /\ idx = 0
  /\ files = NoFiles
  /\ dirs \in {{}, {Root}}
  /\ stdout = <<>>
  /\ calls = <<>>
  /\ io = <<>>
  /\ raised = PyNone

InLoop == pc = "generate" /\ idx <= Len(instlist)
inst == instlist[idx]
filename == Filename(baseloc, get_opcode(inst))

\* one pass of the for loop that opens filename, writes text and either
\* goes on to the next descriptor or is left by the exception exc
Emit(text, exc) ==
  /\ files' = open_w(files, filename, text)
  /\ io' = Append(io, "open")
  /\ raised' = exc
  /\ IF exc = PyNone
     THEN pc' = pc /\ idx' = idx + 1
     ELSE pc' = "raised" /\ idx' = idx
  /\ UNCHANGED <<repetitions, instlist, baseloc, dirs, stdout, calls>>

GenerateBr ==
  /\ InLoop
  /\ get_opcode(inst) = "br"
  /\ Emit(br_program(repetitions), PyNone)

GenerateFrem ==
  /\ InLoop
  /\ get_opcode(inst) # "br"
  /\ get_opcode(inst) = "frem"
  /\ LET r == frem_program(get_type(inst), get_args(inst), repetitions)
     IN  Emit(r.text, r.raised)

GenerateSimple ==
  /\ InLoop
  /\ get_opcode(inst) # "br"
  /\ get_opcode(inst) # "frem"
  /\ ~inst.is_complex
  /\ Emit(simple_program(inst, repetitions), PyNone)

GenerateComplex_first ==
  /\ InLoop
  /\ inst.is_complex
  /\ Emit(complex_program(inst, repetitions), PyNone)
GenerateComplex ==
  /\ InLoop
  /\ get_opcode(inst) # "br"
  /\ get_opcode(inst) # "frem"
  /\ inst.is_complex
  /\ Emit(complex_program(inst, repetitions), PyNone)

\* the for loop is exhausted: generate() returns
Return ==
  /\ pc = "generate"
  /\ idx > Len(instlist)
  /\ pc' = "done"
  /\ UNCHANGED <<repetitions, instlist, baseloc, idx, files, dirs, stdout,
                 calls, io, raised>>

Next == GenerateBr \/ GenerateFrem \/ GenerateSimple \/ GenerateComplex
        \/ Return

Spec == Init /\ [][Next]_vars

(* ------------------------------- main() -------------------------------- *)
\* input_path.mkdir(parents=True, exist_ok=True)
Mkdir ==
  /\ pc = "main"
  /\ dirs' = dirs \cup {Root}
  /\ io' = Append(io, "mkdir")
  /\ pc' = "check"
  /\ UNCHANGED <<repetitions, instlist, baseloc, idx, files, stdout, calls,
                 raised>>

valid_reps_nonneg(reps) == reps >= 0
valid_reps(reps) == reps > 0

\* gen = Generator(worklist, input_path, reps); gen.generate()
RunGenerator ==
  /\ pc = "check"
  /\ valid_reps(repetitions)
  /\ instlist' = worklist
  /\ baseloc' = Root
  /\ idx' = 1
  /\ calls' = Append(calls, Root)
  /\ pc' = "generate"
  /\ UNCHANGED <<repetitions, files, dirs, stdout, io, raised>>

UsageError ==
  /\ pc = "check"
  /\ ~valid_reps(repetitions)
  /\ stdout' = Append(stdout, "Repetitions must be greater than 0")
  /\ pc' = "done"
  /\ UNCHANGED <<repetitions, instlist, baseloc, idx, files, dirs, calls, io,
                 raised>>

MainNext == Mkdir \/ RunGenerator \/ UsageError \/ Next

MainSpec == MainInit /\ [][MainNext]_vars

(* ------------------------------ properties ----------------------------- *)
\* the descriptors generate() has finished without an exception
Generated == 1..(idx - 1)
\* the descriptor whose file was written last and in full, when there is one
JustGenerated == pc \in {"generate", "done"} /\ idx > 1
last == instlist[idx - 1]
lastLines == Lines(files[Filename(baseloc, get_opcode(last))])
Count(lines, Test(_)) == Len(SelectSeq(lines, Test))

RecognisedTypes == {"i32", "i8", "i0", "float"}
C2_UnknownTypeRaises ==
  \A k \in DOMAIN instlist :
    (Strategy(instlist[k]) = "simple"
       /\ get_type(instlist[k]) \notin RecognisedTypes) =>
      /\ k \notin Generated
      /\ LET f == Filename(baseloc, get_opcode(instlist[k]))
         IN  f \in DOMAIN files =>
               \A j \in DOMAIN Lines(files[f]) :
                 Lines(files[f])[j] # <<"@global = global ",
                                        sink(instlist[k]), " ", "None">>

\* C3 (as claimed): with a repetition count <= 0 main() makes no file
\* system operation at all, never calls the Generator, writes no file, and
\* ends having printed the diagnostic.
C3_NoIOOnUsageError ==
  repetitions <= 0 =>
    /\ io = <<>>
    /\ calls = <<>>
    /\ files = NoFiles
    /\ pc = "done" => stdout # <<>>

\* C3 (amended): with a repetition count <= 0 main() first creates the
\* output directory, then prints the diagnostic; the directory creation is
\* its only file system operation, the Generator is never called and no
\* file is written.
C3_OnlyMkdirOnUsageError ==
  repetitions <= 0 =>
    /\ pc \in {"main", "check", "done"}
    /\ calls = <<>>
    /\ files = NoFiles
    /\ io = IF pc = "main" THEN <<>> ELSE <<"mkdir">>
    /\ pc # "main" => Root \in dirs
    /\ stdout = IF pc = "done" THEN <<"Repetitions must be greater than 0">>
                ELSE <<>>

C3_Witness == repetitions = 0 /\ pc = "done" /\ stdout # <<>>

\* C4 (as claimed): a valid run of main() calls the Generator once per
\* worklist of the catalog, and every descriptor of every worklist is a
\* file <root>/<subpath>/<opcode>.ll, the cpu and dram "load" and "store"
\* being different files.
C4_OneFilePerDescriptorPerWorklist ==
  (pc = "done" /\ repetitions >= 1) =>
    /\ Len(calls) = Len(worklists)
    /\ \A w \in DOMAIN worklists :
         /\ calls[w] = Root \o <<worklists[w].subpath>>
         /\ \A d \in DOMAIN worklists[w].instructions :
              Filename(Root \o <<worklists[w].subpath>>,
                       get_opcode(worklists[w].instructions[d]))
                \in DOMAIN files

\* C5: the file of a simple-path descriptor has exactly R+1 lines
\* "%i = <opcode> <resultType> <operands>", for i = 0..R in this order, and
\* exactly one line declaring the global.
C5_SimpleLineCounts ==
  (JustGenerated /\ Strategy(last) = "simple") =>
    LET applications == SelectSeq(lastLines,
                          LAMBDA l : Len(l) >= 3 /\ l[3] = " = ")
        globals == SelectSeq(lastLines,
                     LAMBDA l : Len(l) >= 1 /\ l[1] = "@global = global ")
    IN  /\ Len(applications) = repetitions + 1
        /\ \A i \in 0..repetitions :
             applications[i + 1] =
               <<"  ", Binding(i), " = ", get_opcode(last), " ",
                 get_type(last), " ">> \o get_args(last)
        /\ Len(globals) = 1

C5_Witness ==
  /\ JustGenerated
  /\ Strategy(last) = "simple"
  /\ repetitions = 1
  /\ Count(lastLines, LAMBDA l : Len(l) >= 3 /\ l[3] = " = ") = 2

\* C6: the file of a "br" descriptor defines, each exactly once, the R+2
\* chain labels block0..blockR and end and the 2*(R+1) arm labels then{i}
\* and else{i}, i in 0..R, and no other block, then or else label.
Num(i) == ToString(i)
Labels(lines) ==
  LET defs == SelectSeq(lines, LAMBDA l : Len(l) = 2 /\ l[2] = ":")
  IN  [k \in DOMAIN defs |-> defs[k][1]]
Occurrences(labs, lab) == Cardinality({k \in DOMAIN labs : labs[k] = lab})
C6_BrLabels ==
  (JustGenerated /\ Strategy(last) = "br") =>
    LET R == repetitions
        labs == Labels(lastLines)
        chain == {"block" \o Num(i) : i \in 0..R} \cup {"end"}
        arms == {"then" \o Num(i) : i \in 0..R}
                  \cup {"else" \o Num(i) : i \in 0..R}
        \* every label a br program of a nearby depth could define
        anyChain == {"block" \o Num(i) : i \in 0..(R + 2)} \cup {"end"}
        anyArm == {"then" \o Num(i) : i \in 0..(R + 2)}
                    \cup {"else" \o Num(i) : i \in 0..(R + 2)}
    IN  /\ \A lab \in chain \cup arms : Occurrences(labs, lab) = 1
        /\ Cardinality({k \in DOMAIN labs : labs[k] \in anyChain}) = R + 2
        /\ Cardinality({k \in DOMAIN labs : labs[k] \in anyArm})
             = 2 * (R + 1)

C6_Witness ==
  /\ JustGenerated
  /\ Strategy(last) = "br"
  /\ repetitions = 2
  /\ Occurrences(Labels(lastLines), "else2") = 1

\* C7: the file of a "frem" descriptor with two operands has exactly R+1
\* frem computations %r0..%rR in this order; the two lines before %r{i}
\* are the volatile loads of %x{i} from the first global and of %y{i} from
\* the second, the line before them is not a load, %x{i} and %y{i} are
\* defined nowhere else, and they are the operands of %r{i}.
IsLoad(l) == Len(l) >= 3 /\ l[3] = " = load volatile "
C7_FremReloads ==
  (JustGenerated /\ Strategy(last) = "frem" /\ Len(last.args) = 2) =>
    LET R == repetitions
        ty == get_type(last)
        at == {k \in DOMAIN lastLines :
                 Len(lastLines[k]) >= 3 /\ lastLines[k][3] = " = frem "}
        pos(i) == CHOOSE k \in at : Cardinality({j \in at : j < k}) = i
    IN  /\ Cardinality(at) = R + 1
        /\ lastLines[1][1] = "@c42" /\ lastLines[2][1] = "@c3"
        /\ \A i \in 0..R :
             LET p == pos(i)
             IN  /\ lastLines[p] = <<"  ", "%r" \o Num(i), " = frem ", ty,
                                     " ", "%x" \o Num(i), ", ",
                                     "%y" \o Num(i)>>
                 /\ lastLines[p - 2] = <<"  ", "%x" \o Num(i),
                                         " = load volatile ", ty, ", ", ty,
                                         "* ", "@c42">>
                 /\ lastLines[p - 1] = <<"  ", "%y" \o Num(i),
                                         " = load volatile ", ty, ", ", ty,
                                         "* ", "@c3">>
                 /\ ~IsLoad(lastLines[p - 3])
                 /\ \A k \in DOMAIN lastLines :
                      (IsLoad(lastLines[k])
                         /\ lastLines[k][2] \in {"%x" \o Num(i),
                                                 "%y" \o Num(i)})
                        => k \in {p - 2, p - 1}

C7_Witness ==
  /\ JustGenerated
  /\ Strategy(last) = "frem"
  /\ Len(last.args) = 2
  /\ repetitions = 2
  /\ \E k \in DOMAIN lastLines :
       Len(lastLines[k]) >= 3 /\ lastLines[k][2] = "%r2"

\* C8: in the file of a complex-path descriptor the R+1 iteration bodies
\* follow the pretext.  Without useCounter every body is "  ", execBlock,
\* newline.  With useCounter body i is "  %i = ", then execBlock with each
\* COUNTER token replaced by %i, then newline, so two bodies differ only
\* where one holds its own binding %i and the other its own binding %j.
lastText == files[Filename(baseloc, get_opcode(last))]
C8_ComplexBodies ==
  (JustGenerated /\ Strategy(last) = "complex") =>
    LET R == repetitions
        exec == last.cpx_exec_block
        H == Len(last.cpx_header_block) + 7 + Len(last.cpx_pretext)
        L == Len(exec) + (IF last.cpx_use_counter THEN 4 ELSE 2)
        Body(i) == SubSeq(lastText, H + i * L + 1, H + (i + 1) * L)
    IN  /\ Len(lastText) = H + (R + 1) * L + Len(last.cpx_footer_block) + 6
        /\ ~last.cpx_use_counter =>
             \A i \in 0..R : Body(i) = <<"  ">> \o exec \o <<NL>>
        /\ last.cpx_use_counter =>
             /\ \A i \in 0..R :
                  /\ SubSeq(Body(i), 1, 3) = <<"  ", Binding(i), " = ">>
                  /\ Body(i)[L] = NL
                  /\ \A k \in DOMAIN exec :
                       Body(i)[3 + k] = IF exec[k] = COUNTER THEN Binding(i)
                                        ELSE exec[k]
             /\ \A i, j \in 0..R : \A k \in 1..L :
                  Body(i)[k] # Body(j)[k] =>
                    Body(i)[k] = Binding(i) /\ Body(j)[k] = Binding(j)

C8_Witness ==
  /\ JustGenerated
  /\ Strategy(last) = "complex"
  /\ last.cpx_use_counter
  /\ Cardinality({k \in DOMAIN last.cpx_exec_block :
                    last.cpx_exec_block[k] = COUNTER}) = 2
  /\ repetitions = 2
  /\ Cardinality({k \in DOMAIN lastText : lastText[k] = Binding(2)}) = 3

\* C9 (as claimed): generate() never gets past a "frem" descriptor whose
\* operand list does not have exactly two operands: it raises.
C9_MalformedFremRaises ==
  \A k \in DOMAIN instlist :
    (Strategy(instlist[k]) = "frem" /\ Len(instlist[k].args) # 2) =>
      k \notin Generated

\* C10: when generate() has returned, the file <opcode>.ll of every opcode
\* of the worklist is exactly the program of the last descriptor with that
\* opcode, whatever the file held before; and an exception is never due to
\* a repeated opcode: only a frem descriptor whose joined operands have no
\* comma raises.
ProgramOf(d, R) ==
  CASE Strategy(d) = "br" -> br_program(R)
    [] Strategy(d) = "frem" -> frem_program(get_type(d), get_args(d), R).text
    [] Strategy(d) = "simple" -> simple_program(d, R)
    [] Strategy(d) = "complex" -> complex_program(d, R)
C10_LastDescriptorWins ==
  /\ pc = "done" =>
       \A k \in DOMAIN instlist :
         (\A j \in DOMAIN instlist :
            get_opcode(instlist[j]) = get_opcode(instlist[k]) => j <= k)
         => files[Filename(baseloc, get_opcode(instlist[k]))]
              = ProgramOf(instlist[k], repetitions)
  /\ pc = "raised" =>
       /\ Strategy(instlist[idx]) = "frem"
       /\ Len(split(get_args(instlist[idx]), ",")) < 2

C10_Witness ==
  /\ pc = "done"
  /\ Len(instlist) = 2
  /\ get_opcode(instlist[1]) = get_opcode(instlist[2])
  /\ Len(ProgramOf(instlist[2], repetitions))
       < Len(ProgramOf(instlist[1], repetitions))
  /\ Len(io) = 2

\* C11: every pass of the for loop of generate() opens exactly one file,
\* <baseloc>/<opcode>.ll, leaves every other file alone, and writes the
\* program of the first strategy that matches in the order opcode "br",
\* opcode "frem", not complex, complex; for a complex descriptor whose
\* opcode is "br" or "frem" nothing of its four text blocks is written.
BlockTokens(d) ==
  {d.cpx_exec_block[k] : k \in DOMAIN d.cpx_exec_block}
    \cup {d.cpx_header_block[k] : k \in DOMAIN d.cpx_header_block}
    \cup {d.cpx_footer_block[k] : k \in DOMAIN d.cpx_footer_block}
    \cup {d.cpx_pretext[k] : k \in DOMAIN d.cpx_pretext}
C11_Pass ==
  (pc = "generate" /\ idx <= Len(instlist)) =>
    LET d == instlist[idx]
        R == repetitions
        fn == Append(baseloc, d.opcode \o ".ll")
        written ==
          IF d.opcode = "br" THEN br_program(R)
          ELSE IF d.opcode = "frem"
               THEN frem_program(d.type, to_comma_separated(d.args), R).text
          ELSE IF d.is_complex = FALSE THEN simple_program(d, R)
          ELSE complex_program(d, R)
    IN  /\ io' = Append(io, "open")
        /\ DOMAIN files' = DOMAIN files \cup {fn}
        /\ files'[fn] = written
        /\ \A f \in DOMAIN files : f # fn => files'[f] = files[f]
        /\ (d.is_complex /\ d.opcode \in {"br", "frem"}) =>
             \A k \in DOMAIN files'[fn] : files'[fn][k] \notin BlockTokens(d)
C11_DispatchOrder == [][C11_Pass]_vars

C11_Witness ==
  /\ JustGenerated
  /\ last.is_complex
  /\ get_opcode(last) = "br"
  /\ lastText = br_program(repetitions)
  /\ Len(io) = 1

\* C12: the program written for "br" is a linear chain.  entry jumps to
\* block0 only; block{i} ends in a branch to then{i} and else{i} only;
\* each arm stores %v{i} to @global and then jumps to block{i+1} when
\* i < R and to end when i = R; end returns 0.  So every path of jumps
\* from entry passes block0, block1, ..., blockR in this order, each once,
\* and ends in end: no jump goes backwards or skips a block.
IsLabel(l) == Len(l) = 2 /\ l[2] = ":"
\* the lines of the basic block lab: those after its label up to the next
\* label, blank lines left out
BlockBody(lines, lab) ==
  LET at == {k \in DOMAIN lines : IsLabel(lines[k]) /\ lines[k][1] = lab}
  IN  IF at = {} THEN <<>>
      ELSE LET p == CHOOSE k \in at : \A j \in at : k <= j
               later == {k \in DOMAIN lines : k > p /\ IsLabel(lines[k])}
               q == IF later = {} THEN Len(lines) + 1
                    ELSE CHOOSE k \in later : \A j \in later : k <= j
           IN  SelectSeq(SubSeq(lines, p + 1, q - 1), LAMBDA l : l # <<>>)
\* the labels a line jumps to
Targets(l) ==
  IF Len(l) = 2 /\ l[1] = "  br label %" THEN {l[2]}
  ELSE IF Len(l) = 4 /\ l[1] = "  br i1 true, label %" THEN {l[2], l[4]}
  ELSE {}
Jumps(lines, lab) ==
  LET body == BlockBody(lines, lab)
  IN  UNION {Targets(body[k]) : k \in DOMAIN body}
\* the paths of jumps from lab, followed for at most fuel jumps
RECURSIVE PathsFrom(_, _, _)
PathsFrom(lines, lab, fuel) ==
  IF fuel = 0 \/ Jumps(lines, lab) = {} THEN {<<lab>>}
  ELSE UNION {{<<lab>> \o path : path \in PathsFrom(lines, t, fuel - 1)} :
                t \in Jumps(lines, lab)}
BrPaths == PathsFrom(lastLines, "entry", Len(lastLines))
C12_BrLinearChain ==
  (JustGenerated /\ Strategy(last) = "br") =>
    LET R == repetitions
        block(i) == "block" \o Num(i)
        after(i) == IF i < R THEN block(i + 1) ELSE "end"
        store(i) == <<"  store volatile i32 ", "%v" \o Num(i),
                      ", i32* @global">>
        arm(i) == <<store(i), <<"  br label %", after(i)>>>>
    IN  /\ BlockBody(lastLines, "entry") = << <<"  br label %", "block0">> >>
        /\ \A i \in 0..R :
             /\ Len(BlockBody(lastLines, block(i))) = 2
             /\ Targets(BlockBody(lastLines, block(i))[1]) = {}
             /\ BlockBody(lastLines, block(i))[2] =
                  <<"  br i1 true, label %", "then" \o Num(i), ", label %",
                    "else" \o Num(i)>>
             /\ BlockBody(lastLines, "then" \o Num(i)) = arm(i)
             /\ BlockBody(lastLines, "else" \o Num(i)) = arm(i)
        /\ BlockBody(lastLines, "end") = << <<"  ret i32 0">>, <<"}">> >>
        /\ Cardinality(BrPaths) >= 2
        /\ \A path \in BrPaths :
             /\ path[1] = "entry"
             /\ path[Len(path)] = "end"
             /\ SelectSeq(path, LAMBDA lab :
                            lab \in {block(i) : i \in 0..(R + 2)})
                  = [k \in 1..(R + 1) |-> block(k - 1)]
             /\ Occurrences(path, "end") = 1

C12_Witness ==
  /\ JustGenerated
  /\ Strategy(last) = "br"
  /\ repetitions = 2
  /\ <<"entry", "block0", "then0", "block1", "else1", "block2", "then2",
       "end">> \in BrPaths

\* C13: the file of a complex-path descriptor is, in this order and with
\* nothing else: headerBlock as given, a blank line, the opening of main,
\* pretext as given, R+1 bodies made from execBlock, numbered 0..R in
\* this order when useCounter is set, then footerBlock as given on a line
\* of its own, then the return of 0.  A COUNTER in headerBlock, pretext or
\* footerBlock stays as it is.
C13_ComplexOrder ==
  (JustGenerated /\ Strategy(last) = "complex") =>
    LET R == repetitions
        header == last.cpx_header_block
        pretext == last.cpx_pretext
        exec == last.cpx_exec_block
        footer == last.cpx_footer_block
        L == Len(exec) + (IF last.cpx_use_counter THEN 4 ELSE 2)
        a == Len(header)                    \* end of headerBlock
        b == a + 7                          \* end of the opening of main
        c == b + Len(pretext)               \* end of pretext
        e == c + (R + 1) * L                \* end of the bodies
        f == e + 1 + Len(footer)            \* end of footerBlock
        bodyAt(i) == c + i * L
    IN  /\ Len(lastText) = f + 5
        /\ SubSeq(lastText, 1, a) = header
        /\ SubSeq(lastText, a + 1, b)
             = <<NL, NL, "define i32 @main() #0 {", NL, "entry", ":", NL>>
        /\ SubSeq(lastText, b + 1, c) = pretext
        /\ \A i \in 0..R :
             /\ lastText[bodyAt(i) + 1] = "  "
             /\ lastText[bodyAt(i) + L] = NL
             /\ last.cpx_use_counter =>
                  /\ lastText[bodyAt(i) + 2] = Binding(i)
                  /\ lastText[bodyAt(i) + 3] = " = "
             /\ \A k \in DOMAIN exec :
                  exec[k] # COUNTER =>
                    lastText[bodyAt(i) + L - 1 - Len(exec) + k] = exec[k]
        /\ lastText[e + 1] = "  "
        /\ SubSeq(lastText, e + 2, f) = footer
        /\ SubSeq(lastText, f + 1, f + 5)
             = <<NL, "  ret i32 0", NL, "}", NL>>

C13_Witness ==
  /\ JustGenerated
  /\ Strategy(last) = "complex"
  /\ last.cpx_use_counter
  /\ \A blk \in {last.cpx_header_block, last.cpx_pretext,
                 last.cpx_footer_block} :
       \E k \in DOMAIN blk : blk[k] = COUNTER
  /\ repetitions = 2
  /\ Cardinality({k \in DOMAIN lastText : lastText[k] = COUNTER}) = 3

====
